---- MODULE Spec2Model ----
(***************************************************************************)
(* Model of the two code-graph analyzers of sec-scanner:                   *)
(*   src/graph_js.py   JSAnalyzer  and the Node.js script it generates     *)
(*   src/graph_php.py  PHPAnalyzer and the PHP script it generates         *)
(* A run scans a tree (or a single file) with the generated script, which  *)
(* prints one JSON document, and the Python host assembles the graph and   *)
(* the degrees from that document.                                         *)
(*                                                                         *)
(* Source text is modelled at the level of lexemes.  A JavaScript line is  *)
(* a sequence of lexemes (words matching \w+ and punctuation) that stands  *)
(* for the text obtained by joining them with single spaces; the regular   *)
(* expressions of analyzeFile are computed on these sequences.  A PHP file *)
(* is the token array token_get_all returns: array tokens [id, text, line] *)
(* and one-character string tokens.                                        *)
(***************************************************************************)
EXTENDS Integers, Sequences, FiniteSets, TLC

\* Bounds of the model: lines scanned over a whole JavaScript tree,
\* statements over a whole PHP tree, files per tree.
MaxLines == 3
MaxStmts == 2
MaxFiles == 2

\* JavaScript null / PHP null.
Null == "<null>"

\* Truthiness of a name in `a || b` (JavaScript) and `a ?: b` (PHP).
Truthy(v) == v # Null /\ v # ""

Last(s) == s[Len(s)]

RECURSIVE Count(_, _)
Count(s, x) ==
    IF s = <<>> THEN 0
    ELSE (IF Head(s) = x THEN 1 ELSE 0) + Count(Tail(s), x)

RECURSIVE Flatten(_)
Flatten(ss) == IF ss = <<>> THEN <<>> ELSE Head(ss) \o Flatten(Tail(ss))

\* All sequences over S of length at most n.
SeqsUpTo(S, n) == UNION {[1..k -> S] : k \in 0..n}

(***************************************************************************)
(* JavaScript: lexemes and lines                                           *)
(***************************************************************************)
JSPunct == {"(", ")", "{", "}", ".", "=", ";"}

\* A lexeme matched by [\w]+ .
IsWord(t) == t \notin JSPunct

\* The lines a scanned file is made of.
JSLines ==
    { <<"class", "Animal", "{", "}">>,
      <<"class", "Dog", "extends", "Animal", "{">>,
      <<"class", "Dog", "extends", "Animal", "{", "speak", "(", ")", "{", "}", "}">>,
      <<"class", "Dog", "extends", "obj", ".", "Animal", "{">>,
      <<"class", "Dog">>,
      <<"{">>,
      <<"}">>,
      <<"function", "speak", "(", ")", "{">>,
      <<"function", "Animal", "(", ")", "{">>,
      <<"new", "Sound", "(", ")">>,
      <<"obj", ".", "run", "(", "Sound", "(", ")", ")">>,
      <<"console", ".", "log", "(", ")">>,
      <<"require", "(", ")", ";", "import", "(", ")">> }

\* calledName[0]
FirstChar(w) ==
    CASE w \in {"Animal"} -> "A"
      [] w \in {"Dog"} -> "D"
      [] w \in {"Sound"} -> "S"
      [] w \in {"class", "console"} -> "c"
      [] w \in {"extends"} -> "e"
      [] w \in {"function"} -> "f"
      [] w \in {"import"} -> "i"
      [] w \in {"log"} -> "l"
      [] w \in {"new"} -> "n"
      [] w \in {"obj"} -> "o"
      [] w \in {"run", "require"} -> "r"
      [] w \in {"speak"} -> "s"
      [] OTHER -> w

\* String.prototype.toUpperCase on one character.
ToUpperCase(c) ==
    CASE c = "c" -> "C"
      [] c = "e" -> "E"
      [] c = "f" -> "F"
      [] c = "i" -> "I"
      [] c = "l" -> "L"
      [] c = "n" -> "N"
      [] c = "o" -> "O"
      [] c = "r" -> "R"
      [] c = "s" -> "S"
      [] OTHER -> c

(***************************************************************************)
(* JavaScript: the regular expressions of analyzeFile, each as the         *)
(* sequence of its successive exec() matches on one line, from lexeme i.   *)
(***************************************************************************)
\* /class\s+([\w]+)(?:\s+extends\s+([\w]+))?/g
RECURSIVE classRegex(_, _)
classRegex(line, i) ==
    IF i > Len(line) THEN <<>>
    ELSE IF line[i] = "class" /\ i + 1 <= Len(line) /\ IsWord(line[i + 1])
    THEN LET ext == i + 3 <= Len(line) /\ line[i + 2] = "extends"
                    /\ IsWord(line[i + 3])
         IN  <<[className |-> line[i + 1],
                extendsClass |-> IF ext THEN line[i + 3] ELSE Null]>>
             \o classRegex(line, i + (IF ext THEN 4 ELSE 2))
    ELSE classRegex(line, i + 1)

\* /(?:export\s+)?(?:async\s+)?function\s+([\w]+)\s*\(/g
RECURSIVE functionRegex(_, _)
functionRegex(line, i) ==
    IF i > Len(line) THEN <<>>
    ELSE IF line[i] = "function" /\ i + 2 <= Len(line)
            /\ IsWord(line[i + 1]) /\ line[i + 2] = "("
    THEN <<[funcName |-> line[i + 1]]>> \o functionRegex(line, i + 3)
    ELSE functionRegex(line, i + 1)

\* /([\w]+)\s*\(/g ; index is the position the match starts at.
RECURSIVE callRegex(_, _)
callRegex(line, i) ==
    IF i > Len(line) THEN <<>>
    ELSE IF IsWord(line[i]) /\ i + 1 <= Len(line) /\ line[i + 1] = "("
    THEN <<[calledName |-> line[i], index |-> i]>> \o callRegex(line, i + 2)
    ELSE callRegex(line, i + 1)

\* /new\s+([\w]+)\s*\(/g
RECURSIVE newRegex(_, _)
newRegex(line, i) ==
    IF i > Len(line) THEN <<>>
    ELSE IF line[i] = "new" /\ i + 2 <= Len(line)
            /\ IsWord(line[i + 1]) /\ line[i + 2] = "("
    THEN <<[className |-> line[i + 1]]>> \o newRegex(line, i + 3)
    ELSE newRegex(line, i + 1)

(***************************************************************************)
(* JavaScript: analyzeFile.  st = [ctx, result] is threaded through the    *)
(* handlers of one line in the order of the loop body.                     *)
(***************************************************************************)
JSInitCtx ==
    [currentClass |-> Null, currentFunction |-> Null, currentMethod |-> Null,
     inClass |-> FALSE, braceCount |-> 0]

InitResult == [classes |-> <<>>, methods |-> <<>>, functions |-> <<>>, edges |-> <<>>]

\* currentMethod || currentFunction || currentClass
JSCaller(ctx) ==
    IF Truthy(ctx.currentMethod) THEN ctx.currentMethod
    ELSE IF Truthy(ctx.currentFunction) THEN ctx.currentFunction
    ELSE ctx.currentClass

\* One match of classRegex.
JSClassMatch(st, m, lineNumber) ==
    [ctx |-> [st.ctx EXCEPT !.currentClass = m.className, !.inClass = TRUE],
     result |->
        [st.result EXCEPT
            !.classes = Append(@, [name |-> m.className, type |-> "class",
                                   line |-> lineNumber, extends |-> m.extendsClass]),
            !.edges = IF Truthy(m.extendsClass)
                      THEN Append(@, [source |-> m.className, target |-> m.extendsClass,
                                      type |-> "extends", line |-> lineNumber])
                      ELSE @]]

RECURSIVE JSHandleClasses(_, _, _)
JSHandleClasses(st, ms, lineNumber) ==
    IF ms = <<>> THEN st
    ELSE JSHandleClasses(JSClassMatch(st, Head(ms), lineNumber), Tail(ms), lineNumber)

\* One match of functionRegex.
JSFunctionMatch(st, m, lineNumber) ==
    IF st.ctx.inClass
    THEN LET methodName == st.ctx.currentClass \o "::" \o m.funcName
         IN  [ctx |-> [st.ctx EXCEPT !.currentMethod = methodName],
              result |-> [st.result EXCEPT
                  !.methods = Append(@, [name |-> methodName, class |-> st.ctx.currentClass,
                                         type |-> "method", line |-> lineNumber])]]
    ELSE [ctx |-> [st.ctx EXCEPT !.currentFunction = m.funcName],
          result |-> [st.result EXCEPT
              !.functions = Append(@, [name |-> m.funcName, type |-> "function",
                                       line |-> lineNumber])]]

RECURSIVE JSHandleFunctions(_, _, _)
JSHandleFunctions(st, ms, lineNumber) ==
    IF ms = <<>> THEN st
    ELSE JSHandleFunctions(JSFunctionMatch(st, Head(ms), lineNumber), Tail(ms), lineNumber)

\* line.substring(0, callMatch.index).includes('.')
PrevTextHasDot(line, index) == \E k \in 1..(index - 1) : line[k] = "."

\* One match of callRegex.
JSCallMatch(st, m, line, lineNumber) ==
    LET caller == JSCaller(st.ctx)
    IN  IF Truthy(caller) /\ m.calledName \notin {"console", "require", "import"}
        THEN IF PrevTextHasDot(line, m.index)
             THEN [st EXCEPT !.result.edges =
                      Append(@, [source |-> caller, target |-> "*." \o m.calledName,
                                 type |-> "method_call", line |-> lineNumber])]
             ELSE IF FirstChar(m.calledName) = ToUpperCase(FirstChar(m.calledName))
             THEN [st EXCEPT !.result.edges =
                      Append(@, [source |-> caller, target |-> m.calledName,
                                 type |-> "instantiates", line |-> lineNumber])]
             ELSE st
        ELSE st

RECURSIVE JSHandleCalls(_, _, _, _)
JSHandleCalls(st, ms, line, lineNumber) ==
    IF ms = <<>> THEN st
    ELSE JSHandleCalls(JSCallMatch(st, Head(ms), line, lineNumber), Tail(ms), line, lineNumber)

\* Mutant of JSNewMatch: the edge starts at the instantiated class.
JSNewMatchFromTarget(st, m, lineNumber) ==
    LET caller == JSCaller(st.ctx)
    IN  IF Truthy(caller)
        THEN [st EXCEPT !.result.edges =
                 Append(@, [source |-> m.className, target |-> caller,
                            type |-> "instantiates", line |-> lineNumber])]
        ELSE st

\* One match of newRegex.
JSNewMatch(st, m, lineNumber) ==
    LET caller == JSCaller(st.ctx)
    IN  IF Truthy(caller)
        THEN [st EXCEPT !.result.edges =
                 Append(@, [source |-> caller, target |-> m.className,
                            type |-> "instantiates", line |-> lineNumber])]
        ELSE st

RECURSIVE JSHandleNews(_, _, _)
JSHandleNews(st, ms, lineNumber) ==
    IF ms = <<>> THEN st
    ELSE JSHandleNews(JSNewMatch(st, Head(ms), lineNumber), Tail(ms), lineNumber)

\* Mutant of JSTrackBraces: the class context is left below depth zero only.
JSTrackBracesBelowZero(st, line) ==
    LET braceCount == st.ctx.braceCount + Count(line, "{") - Count(line, "}")
    IN  IF st.ctx.inClass /\ braceCount < 0
        THEN [st EXCEPT !.ctx.braceCount = braceCount, !.ctx.inClass = FALSE,
                        !.ctx.currentClass = Null, !.ctx.currentMethod = Null]
        ELSE [st EXCEPT !.ctx.braceCount = braceCount]

\* Brace tracking and the exit from the class context.
JSTrackBraces(st, line) ==
    LET braceCount == st.ctx.braceCount + Count(line, "{") - Count(line, "}")
    IN  IF st.ctx.inClass /\ braceCount <= 0
        THEN [st EXCEPT !.ctx.braceCount = braceCount, !.ctx.inClass = FALSE,
                        !.ctx.currentClass = Null, !.ctx.currentMethod = Null]
        ELSE [st EXCEPT !.ctx.braceCount = braceCount]

\* The scan context and result after the declaration handlers of a line.
JSAfterDeclarations(st, line, lineNumber) ==
    JSHandleFunctions(JSHandleClasses(st, classRegex(line, 1), lineNumber),
                      functionRegex(line, 1), lineNumber)

\* One iteration of the loop over the lines of a file.
JSLine(st, line, lineNumber) ==
    LET s2 == JSAfterDeclarations(st, line, lineNumber)
        s3 == JSHandleCalls(s2, callRegex(line, 1), line, lineNumber)
        s4 == JSHandleNews(s3, newRegex(line, 1), lineNumber)
    IN  JSTrackBraces(s4, line)

(***************************************************************************)
(* PHP: tokens and files                                                   *)
(***************************************************************************)
\* An array token [id, text, line] and a one-character string token.
Tok(id, text) == [arr |-> TRUE, id |-> id, text |-> text, line |-> 0]
Chr(c) == [arr |-> FALSE, id |-> "", text |-> c, line |-> 0]
WS == Tok("T_WHITESPACE", " ")
NL == Tok("T_WHITESPACE", "\n")

\* The statements a scanned file is made of, one per source line.
PHPStmts ==
    { <<Tok("T_CLASS", "class"), WS, Tok("T_STRING", "Bar"), WS, Chr("{"), WS, Chr("}"), NL>>,
      <<Tok("T_CLASS", "class"), WS, Tok("T_STRING", "Foo"), WS, Tok("T_EXTENDS", "extends"),
        WS, Tok("T_STRING", "Bar"), WS, Chr("{"), NL>>,
      <<Chr("}"), NL>>,
      <<Tok("T_FUNCTION", "function"), WS, Tok("T_STRING", "run"), Chr("("), Chr(")"), WS,
        Chr("{"), WS, Chr("}"), NL>>,
      <<Tok("T_NEW", "new"), WS, Tok("T_STRING", "Sound"), Chr("("), Chr(")"), Chr(";"), NL>>,
      <<Tok("T_STRING", "Bar"), Tok("T_DOUBLE_COLON", "::"), Tok("T_STRING", "make"),
        Chr("("), Chr(")"), Chr(";"), NL>>,
      <<Tok("T_VARIABLE", "$x"), Tok("T_OBJECT_OPERATOR", "->"), Tok("T_STRING", "run"),
        Chr("("), Chr(")"), Chr(";"), NL>>,
      <<Tok("T_VARIABLE", "$x"), Tok("T_OBJECT_OPERATOR", "->"), Tok("T_STRING", "prop"),
        Chr(";"), NL>>,
      <<Tok("T_NAMESPACE", "namespace"), WS, Tok("T_STRING", "App"), Chr(";"), NL>>,
      \* function run() { } class Bar { }
      <<Tok("T_FUNCTION", "function"), WS, Tok("T_STRING", "run"), Chr("("), Chr(")"), WS,
        Chr("{"), WS, Chr("}"), WS,
        Tok("T_CLASS", "class"), WS, Tok("T_STRING", "Bar"), WS, Chr("{"), WS, Chr("}"), NL>>,
      \* class Foo extends Bar { function run() { new Sound(); Bar::make(); $x->run(); } }
      <<Tok("T_CLASS", "class"), WS, Tok("T_STRING", "Foo"), WS, Tok("T_EXTENDS", "extends"),
        WS, Tok("T_STRING", "Bar"), WS, Chr("{"), WS,
        Tok("T_FUNCTION", "function"), WS, Tok("T_STRING", "run"), Chr("("), Chr(")"), WS,
        Chr("{"), WS,
        Tok("T_NEW", "new"), WS, Tok("T_STRING", "Sound"), Chr("("), Chr(")"), Chr(";"), WS,
        Tok("T_STRING", "Bar"), Tok("T_DOUBLE_COLON", "::"), Tok("T_STRING", "make"),
        Chr("("), Chr(")"), Chr(";"), WS,
        Tok("T_VARIABLE", "$x"), Tok("T_OBJECT_OPERATOR", "->"), Tok("T_STRING", "run"),
        Chr("("), Chr(")"), Chr(";"), WS, Chr("}"), WS, Chr("}"), NL>> }

\* token_get_all of a file: the open tag on line 1, statement k on line k + 1.
OnLine(stmt, n) == [k \in 1..Len(stmt) |-> [stmt[k] EXCEPT !.line = n]]
PHPTokens(stmts) ==
    <<[Tok("T_OPEN_TAG", "<?php\n") EXCEPT !.line = 1]>>
    \o Flatten([k \in 1..Len(stmts) |-> OnLine(stmts[k], k + 1)])

IsArray(t) == t.arr
IsTok(t, id) == t.arr /\ t.id = id
\* $tokens[$k] === '{'
IsChr(t, c) == ~t.arr /\ t.text = c

(***************************************************************************)
(* PHP: analyzeFile.  st = [ctx, result]; one iteration of the token loop  *)
(* is PHPToken.                                                            *)
(***************************************************************************)
PHPInitCtx ==
    [namespace |-> "", currentClass |-> Null, currentMethod |-> Null,
     currentFunction |-> Null]

\* Mutant of PHPCaller: the function is consulted before the method.
PHPCallerFunctionFirst(ctx) ==
    IF Truthy(ctx.currentFunction) THEN ctx.currentFunction
    ELSE IF Truthy(ctx.currentMethod) THEN ctx.currentMethod
    ELSE ctx.currentClass

\* $currentMethod ?: $currentFunction ?: $currentClass
PHPCaller(ctx) ==
    IF Truthy(ctx.currentMethod) THEN ctx.currentMethod
    ELSE IF Truthy(ctx.currentFunction) THEN ctx.currentFunction
    ELSE ctx.currentClass

\* $namespace ? $namespace . '\\' . $name : $name
Qualify(namespace, name) ==
    IF Truthy(namespace) THEN namespace \o "\\" \o name ELSE name

\* The namespace loop: from j up to the first token whose [0] is ';'.
RECURSIVE NamespaceScan(_, _)
NamespaceScan(tokens, j) ==
    IF j > Len(tokens) \/ IsChr(tokens[j], ";") THEN ""
    ELSE (IF IsTok(tokens[j], "T_STRING") THEN tokens[j].text
          ELSE IF IsTok(tokens[j], "T_NS_SEPARATOR") THEN "\\"
          ELSE "")
         \o NamespaceScan(tokens, j + 1)

\* while ($j < count($tokens) && is_array($tokens[$j])): the index of the
\* first T_STRING of the run of array tokens that starts at j, or 0.
RECURSIVE FirstString(_, _)
FirstString(tokens, j) ==
    IF j > Len(tokens) \/ ~IsArray(tokens[j]) THEN 0
    ELSE IF IsTok(tokens[j], "T_STRING") THEN j
    ELSE FirstString(tokens, j + 1)

\* Where the inner loop after T_EXTENDS stops: the first index from k that
\* is past the end, a string token or a T_STRING.
RECURSIVE ExtendsStop(_, _)
ExtendsStop(tokens, k) ==
    IF k > Len(tokens) \/ ~IsArray(tokens[k]) \/ IsTok(tokens[k], "T_STRING") THEN k
    ELSE ExtendsStop(tokens, k + 1)

\* The loop `while ($k < count($tokens) && $tokens[$k] !== '{')`: the
\* superclass names it adds an extends edge for, in order.
RECURSIVE ExtendsScan(_, _)
ExtendsScan(tokens, k) ==
    IF k > Len(tokens) \/ IsChr(tokens[k], "{") THEN <<>>
    ELSE IF IsTok(tokens[k], "T_EXTENDS")
    THEN LET m == ExtendsStop(tokens, k + 1)
         IN  (IF m <= Len(tokens) /\ IsTok(tokens[m], "T_STRING")
              THEN <<tokens[m].text>> ELSE <<>>)
             \o ExtendsScan(tokens, m + 1)
    ELSE ExtendsScan(tokens, k + 1)

PHPNamespace(st, tokens, i) ==
    IF IsTok(tokens[i], "T_NAMESPACE")
    THEN [st EXCEPT !.ctx.namespace = NamespaceScan(tokens, i + 1)]
    ELSE st

PHPClass(st, tokens, i) ==
    LET j == FirstString(tokens, i + 1)
        fullName == Qualify(st.ctx.namespace, tokens[j].text)
        supers == ExtendsScan(tokens, j + 1)
        line == tokens[i].line
    IN  IF IsTok(tokens[i], "T_CLASS") /\ j # 0
        THEN [ctx |-> [st.ctx EXCEPT !.currentClass = fullName],
              result |-> [st.result EXCEPT
                  !.edges = @ \o [n \in 1..Len(supers) |->
                                    [source |-> fullName, target |-> supers[n],
                                     type |-> "extends", line |-> line]],
                  !.classes = Append(@, [name |-> fullName, type |-> "class", line |-> line,
                                         extends |-> IF supers = <<>> THEN Null
                                                     ELSE Last(supers)])]]
        ELSE st

PHPFunction(st, tokens, i) ==
    LET j == FirstString(tokens, i + 1)
        funcName == tokens[j].text
        line == tokens[i].line
    IN  IF IsTok(tokens[i], "T_FUNCTION") /\ j # 0
        THEN IF Truthy(st.ctx.currentClass)
             THEN LET fullName == st.ctx.currentClass \o "::" \o funcName
                  IN  [ctx |-> [st.ctx EXCEPT !.currentMethod = fullName],
                       result |-> [st.result EXCEPT
                           !.methods = Append(@, [name |-> fullName,
                                                  class |-> st.ctx.currentClass,
                                                  type |-> "method", line |-> line])]]
             ELSE LET fullName == Qualify(st.ctx.namespace, funcName)
                  IN  [ctx |-> [st.ctx EXCEPT !.currentFunction = fullName],
                       result |-> [st.result EXCEPT
                           !.functions = Append(@, [name |-> fullName, type |-> "function",
                                                    line |-> line])]]
        ELSE st

PHPNew(st, tokens, i) ==
    LET j == FirstString(tokens, i + 1)
        caller == PHPCaller(st.ctx)
    IN  IF IsTok(tokens[i], "T_NEW") /\ j # 0 /\ Truthy(caller)
        THEN [st EXCEPT !.result.edges =
                 Append(@, [source |-> caller, target |-> tokens[j].text,
                            type |-> "instantiates", line |-> tokens[i].line])]
        ELSE st

PHPDoubleColon(st, tokens, i) ==
    LET hasClass == i - 1 >= 1 /\ IsTok(tokens[i - 1], "T_STRING")
        hasMethod == i + 1 <= Len(tokens) /\ IsTok(tokens[i + 1], "T_STRING")
        caller == PHPCaller(st.ctx)
    IN  IF IsTok(tokens[i], "T_DOUBLE_COLON") /\ hasClass /\ hasMethod /\ Truthy(caller)
        THEN [st EXCEPT !.result.edges =
                 Append(@, [source |-> caller,
                            target |-> tokens[i - 1].text \o "::" \o tokens[i + 1].text,
                            type |-> "static_call", line |-> tokens[i].line])]
        ELSE st

PHPObjectOperator(st, tokens, i) ==
    LET hasMethod == i + 1 <= Len(tokens) /\ IsTok(tokens[i + 1], "T_STRING")
        caller == PHPCaller(st.ctx)
    IN  IF IsTok(tokens[i], "T_OBJECT_OPERATOR") /\ hasMethod /\ Truthy(caller)
        THEN [st EXCEPT !.result.edges =
                 Append(@, [source |-> caller, target |-> "*::" \o tokens[i + 1].text,
                            type |-> "method_call", line |-> tokens[i].line])]
        ELSE st

\* for ($j = $i - 1; $j >= 0; $j--): the brace count the loop ends with.
RECURSIVE BraceCountBack(_, _, _)
BraceCountBack(tokens, j, braceCount) ==
    IF j < 1 THEN braceCount
    ELSE LET c == braceCount + (IF IsChr(tokens[j], "{") THEN 1 ELSE 0)
                             - (IF IsChr(tokens[j], "}") THEN 1 ELSE 0)
         IN  IF c > 0 THEN c ELSE BraceCountBack(tokens, j - 1, c)

\* "Reset context when leaving class".
PHPClassExit(st, tokens, i) ==
    IF IsChr(tokens[i], "}") /\ Truthy(st.ctx.currentClass)
       /\ BraceCountBack(tokens, i - 1, 0) = 0
    THEN [st EXCEPT !.ctx.currentClass = Null, !.ctx.currentMethod = Null]
    ELSE st

\* The handlers of the loop body that record declarations.
PHPAfterDeclarations(st, tokens, i) ==
    PHPFunction(PHPClass(PHPNamespace(st, tokens, i), tokens, i), tokens, i)

\* One iteration of the loop over the tokens of a file.
PHPToken(st, tokens, i) ==
    IF ~IsArray(tokens[i]) THEN st       \* if (!is_array($tokens[$i])) continue;
    ELSE LET s3 == PHPAfterDeclarations(st, tokens, i)
             s4 == PHPNew(s3, tokens, i)
             s5 == PHPDoubleColon(s4, tokens, i)
             s6 == PHPObjectOperator(s5, tokens, i)
         IN  PHPClassExit(s6, tokens, i)

(***************************************************************************)
(* The scripts' main part: the per-file results become the node and edge   *)
(* records of the JSON document.                                           *)
(***************************************************************************)
\* The words a JavaScript name can be.
JSWords == (UNION {{l[k] : k \in 1..Len(l)} : l \in JSLines}) \ JSPunct

\* The names a PHP T_STRING can carry.
PHPNames ==
    UNION {{s[k].text : k \in {n \in 1..Len(s) : IsTok(s[n], "T_STRING")}} : s \in PHPStmts}

\* method.name.split('::')[1] and explode('::', $method['name'])[1]
MethodLabel(method, names) ==
    CHOOSE f \in names : method.name = method.class \o "::" \o f

\* The file of a node or edge: the path relative to the scanned root (the
\* base name in single-file mode); the n-th file of the walk.
FileName(n) == "file" \o ToString(n)

JSNodesOf(fileResult, relPath) ==
    [k \in 1..Len(fileResult.classes) |->
        [id |-> fileResult.classes[k].name, label |-> fileResult.classes[k].name,
         type |-> "class", file |-> relPath, line |-> fileResult.classes[k].line]]
    \o [k \in 1..Len(fileResult.methods) |->
        [id |-> fileResult.methods[k].name,
         label |-> MethodLabel(fileResult.methods[k], JSWords),
         type |-> "method", file |-> relPath, line |-> fileResult.methods[k].line]]
    \o [k \in 1..Len(fileResult.functions) |->
        [id |-> fileResult.functions[k].name, label |-> fileResult.functions[k].name,
         type |-> "function", file |-> relPath, line |-> fileResult.functions[k].line]]

\* edge.file = relPath
EdgesOf(fileResult, relPath) ==
    [k \in 1..Len(fileResult.edges) |->
        [source |-> fileResult.edges[k].source, target |-> fileResult.edges[k].target,
         type |-> fileResult.edges[k].type, line |-> fileResult.edges[k].line,
         file |-> relPath]]

\* basename() of a name is the name itself where '\' is no path separator.
PHPNodesOf(fileResult, relPath) ==
    [k \in 1..Len(fileResult.classes) |->
        [id |-> fileResult.classes[k].name, label |-> fileResult.classes[k].name,
         type |-> "class", file |-> relPath, line |-> fileResult.classes[k].line]]
    \o [k \in 1..Len(fileResult.methods) |->
        [id |-> fileResult.methods[k].name,
         label |-> MethodLabel(fileResult.methods[k], PHPNames),
         type |-> "method", file |-> relPath, line |-> fileResult.methods[k].line]]
    \o [k \in 1..Len(fileResult.functions) |->
        [id |-> fileResult.functions[k].name, label |-> fileResult.functions[k].name,
         type |-> "function", file |-> relPath, line |-> fileResult.functions[k].line]]

\* results after one more file of the walk.
JSMerge(res, fileResult, relPath) ==
    [nodes |-> res.nodes \o JSNodesOf(fileResult, relPath),
     edges |-> res.edges \o EdgesOf(fileResult, relPath)]

PHPMerge(res, fileResult, relPath) ==
    [nodes |-> res.nodes \o PHPNodesOf(fileResult, relPath),
     edges |-> res.edges \o EdgesOf(fileResult, relPath)]

(***************************************************************************)
(* The Python host: analyze() and _build_graph(), the same in JSAnalyzer   *)
(* and PHPAnalyzer.  A dict is the sequence of its values in insertion     *)
(* order.                                                                  *)
(***************************************************************************)
\* data.get(key, [])
Get(data, key) == IF key \in DOMAIN data THEN data[key] ELSE <<>>

\* edge.get('file', '')
FileOf(edge) == IF "file" \in DOMAIN edge THEN edge.file ELSE ""

HasKey(dict, id) == \E k \in 1..Len(dict) : dict[k].id = id

\* self.nodes[node['id']] = node
DictPut(dict, node) ==
    IF HasKey(dict, node.id)
    THEN [k \in 1..Len(dict) |-> IF dict[k].id = node.id THEN node ELSE dict[k]]
    ELSE Append(dict, node)

NewNode(node) ==
    [id |-> node.id, label |-> node.label, type |-> node.type, file |-> node.file,
     line |-> node.line, in_degree |-> 0, out_degree |-> 0]

\* "Build node index"
RECURSIVE BuildNodeIndex(_, _)
BuildNodeIndex(dict, dataNodes) ==
    IF dataNodes = <<>> THEN dict
    ELSE BuildNodeIndex(DictPut(dict, NewNode(Head(dataNodes))), Tail(dataNodes))

\* Mutant of UpdateDegrees: an edge counts only when both ends are nodes.
UpdateDegreesBothKnown(dict, edge) ==
    IF HasKey(dict, edge.source) /\ HasKey(dict, edge.target)
    THEN [k \in 1..Len(dict) |->
            [dict[k] EXCEPT
                !.out_degree = IF dict[k].id = edge.source THEN @ + 1 ELSE @,
                !.in_degree = IF dict[k].id = edge.target THEN @ + 1 ELSE @]]
    ELSE dict

\* Mutant of UpdateDegrees: a target that is no node is entered as one.
UpdateDegreesFabricate(dict, edge) ==
    LET d0 == IF HasKey(dict, edge.target) THEN dict
              ELSE Append(dict, [id |-> edge.target, label |-> edge.target,
                                 type |-> "class", file |-> "", line |-> 0,
                                 in_degree |-> 0, out_degree |-> 0])
    IN  [k \in 1..Len(d0) |->
            [d0[k] EXCEPT
                !.out_degree = IF d0[k].id = edge.source THEN @ + 1 ELSE @,
                !.in_degree = IF d0[k].id = edge.target THEN @ + 1 ELSE @]]

\* "Update degrees" for one edge.
UpdateDegrees(dict, edge) ==
    LET d1 == [k \in 1..Len(dict) |->
                 IF dict[k].id = edge.source
                 THEN [dict[k] EXCEPT !.out_degree = @ + 1] ELSE dict[k]]
    IN  [k \in 1..Len(d1) |->
           IF d1[k].id = edge.target
           THEN [d1[k] EXCEPT !.in_degree = @ + 1] ELSE d1[k]]

NewEdge(edge) ==
    [source |-> edge.source, target |-> edge.target, type |-> edge.type,
     file |-> FileOf(edge), line |-> edge.line]

\* "Process edges and calculate degrees": st = [nodes, edges].
RECURSIVE ProcessEdges(_, _)
ProcessEdges(st, dataEdges) ==
    IF dataEdges = <<>> THEN st
    ELSE ProcessEdges([nodes |-> UpdateDegrees(st.nodes, Head(dataEdges)),
                       edges |-> Append(st.edges, NewEdge(Head(dataEdges)))],
                      Tail(dataEdges))

NumOfType(nodesList, type) == Cardinality({k \in 1..Len(nodesList) : nodesList[k].type = type})

BuildGraph(selfNodes, selfEdges) ==
    LET edgesList == [k \in 1..Len(selfEdges) |->
                        [source |-> selfEdges[k].source, target |-> selfEdges[k].target,
                         type |-> selfEdges[k].type]]
    IN  [nodes |-> selfNodes,
         edges |-> edgesList,
         stats |-> [total_nodes |-> Len(selfNodes),
                    total_edges |-> Len(edgesList),
                    classes |-> NumOfType(selfNodes, "class"),
                    methods |-> NumOfType(selfNodes, "method"),
                    functions |-> NumOfType(selfNodes, "function")]]

\* analyze() on the parsed document.
AnalyzeData(data) ==
    LET index == BuildNodeIndex(<<>>, Get(data, "nodes"))
    IN  ProcessEdges([nodes |-> index, edges |-> <<>>], Get(data, "edges"))

(***************************************************************************)
(* The walk of a directory.  A file of the tree, with an extension the     *)
(* script analyzes, is the names of the directories it is under, below the *)
(* scanned root.                                                           *)
(***************************************************************************)
\* The path argument, as the names of an absolute path.
Roots == {<<"srv", "app">>, <<"srv", "vendor", "app">>}

\* A root the walk of which does not depend on its names.
PlainRoot == <<"srv", "app">>

\* The directories a file of the tree can be under.
Dirs == {<<>>, <<"vendor">>, <<"lib", "node_modules">>}

\* processDirectory: the directories that are not entered.
JSSkipDirs == {"node_modules", ".git", "dist", "build", ".next", ".nuxt"}

\* The file is never passed to analyzeFile: a directory above it is not
\* entered.
JSSkips(dirs) == \E k \in 1..Len(dirs) : dirs[k] \in JSSkipDirs

\* $file->getPathname(): the names of the root, then of the directories;
\* each is followed by '/', and preceded by '/' as the root is absolute.
Pathname(rootNames, dirs) == rootNames \o dirs

\* The file is not added to $phpFiles: strpos finds '/vendor/' or
\* '/node_modules/' in its pathname.
PHPSkips(rootNames, dirs) ==
    \E k \in 1..Len(Pathname(rootNames, dirs)) :
        Pathname(rootNames, dirs)[k] \in {"vendor", "node_modules"}

(***************************************************************************)
(* State                                                                   *)
(***************************************************************************)
VARIABLES
    pipeline,   \* "js" or "php": which analyzer runs
    mode,       \* "dir" or "file": what the path argument names
    pc,         \* "main", "walk", "scan", "stdout", "done"
    tree,       \* the files read so far, the last one being scanned: a
                \* JavaScript file is its lines, a PHP file its token array
    pos,        \* PHP: the index $i of the token loop (1-based)
    ctx,        \* the scan context of analyzeFile
    result,     \* the result of analyzeFile
    results,    \* the script's results: nodes and edges
    data,       \* the JSON document the host parsed from standard output
    nodes,      \* self.nodes
    edges,      \* self.edges
    graph,      \* what analyze() returns
    binary,     \* self.node_binary / self.php_binary: Null when not found
    started,    \* the script was run with the path argument
    returncode, \* result.returncode, Null until the script has ended
    stdout,     \* result.stdout: "json" for a JSON object (held in data),
                \* "null" for the JSON value null, "text" for anything that
                \* is no JSON
    written,    \* the output graph file was written
    exit,       \* the exit status of the host, Null while it runs
    root,       \* the path argument: the names of an absolute path
    item        \* directory mode: the file the walk is at: how many files
                \* it has met (n), the directories this one is under, and
                \* whether it is scanned

vars == <<pipeline, mode, pc, tree, pos, ctx, result, results, data, nodes, edges, graph,
          binary, started, returncode, stdout, written, exit, root, item>>

\* The state of the script's process and of the host's outcome.
procVars == <<binary, started, returncode, stdout>>
outVars == <<written, exit>>
walkVars == <<root, item>>

NoGraph == [nodes |-> <<>>, edges |-> <<>>,
            stats |-> [total_nodes |-> 0, total_edges |-> 0, classes |-> 0,
                       methods |-> 0, functions |-> 0]]

Init ==
    /\ pipeline \in {"js", "php"}
    /\ mode \in {"dir", "file"}
    /\ pc = "main"
    /\ tree = <<>>
    /\ pos = 0
    /\ ctx = IF pipeline = "js" THEN JSInitCtx ELSE PHPInitCtx
    /\ result = InitResult
    /\ results = [nodes |-> <<>>, edges |-> <<>>]
    /\ data = <<>>
    /\ nodes = <<>>
    /\ edges = <<>>
    /\ graph = NoGraph
    /\ binary \in {Null, "bin"}
    /\ started = FALSE
    /\ returncode = Null
    /\ stdout = ""
    /\ written = FALSE
    /\ exit = Null
    /\ root \in (IF pipeline = "php" /\ mode = "dir" THEN Roots ELSE {PlainRoot})
    /\ item = [n |-> 0, dirs |-> <<>>, scanned |-> FALSE]

\* Another file can be scanned: the walk of a directory finds one more
\* eligible file, or the path names a file that was not scanned yet.
MoreFiles == IF mode = "file" THEN Len(tree) < 1 ELSE item.n < MaxFiles

\* Lines (JavaScript) or statements (PHP) read so far over the tree.
RECURSIVE TotalLen(_)
TotalLen(ss) == IF ss = <<>> THEN 0 ELSE Len(Head(ss)) + TotalLen(Tail(ss))

\* The statements of the PHP files read so far: the lines after line 1.
PHPStmtsRead ==
    TotalLen([f \in 1..Len(tree) |-> [k \in 1..(Last(tree[f]).line - 1) |-> k]])

(***************************************************************************)
(* JavaScript script                                                       *)
(***************************************************************************)
\* analyzeFile(fullPath) starts.
JSOpenFile ==
    /\ pipeline = "js" /\ pc = "walk" /\ MoreFiles
    /\ IF mode = "dir"
       THEN \E dirs \in Dirs :
               /\ ~JSSkips(dirs)
               /\ item' = [n |-> item.n + 1, dirs |-> dirs, scanned |-> TRUE]
       ELSE item' = item
    /\ tree' = Append(tree, <<>>)
    /\ ctx' = JSInitCtx
    /\ result' = InitResult
    /\ pc' = "scan"
    /\ UNCHANGED <<pipeline, mode, pos, results, data, nodes, edges, graph,
                   procVars, outVars, root>>

\* The walk passes over a file: it is in a directory processDirectory does
\* not enter.
JSSkipFile ==
    /\ pipeline = "js" /\ pc = "walk" /\ mode = "dir" /\ MoreFiles
    /\ \E dirs \in Dirs :
          /\ JSSkips(dirs)
          /\ item' = [n |-> item.n + 1, dirs |-> dirs, scanned |-> FALSE]
    /\ UNCHANGED <<pipeline, mode, pc, tree, pos, ctx, result, results, data, nodes, edges,
                   graph, procVars, outVars, root>>

\* One iteration of the loop over the lines, on the next line of the file.
JSScanLine ==
    /\ pipeline = "js" /\ pc = "scan" /\ TotalLen(tree) < MaxLines
    /\ \E line \in JSLines :
          LET st == JSLine([ctx |-> ctx, result |-> result], line, Len(Last(tree)) + 1)
          IN  /\ tree' = [tree EXCEPT ![Len(tree)] = Append(@, line)]
              /\ ctx' = st.ctx
              /\ result' = st.result
    /\ UNCHANGED <<pipeline, mode, pc, pos, results, data, nodes, edges, graph,
                   procVars, outVars, walkVars>>

\* analyzeFile returns and its result is added to results; code.split
\* gave at least one line.
JSCloseFile ==
    /\ pipeline = "js" /\ pc = "scan" /\ Last(tree) # <<>>
    /\ results' = JSMerge(results, result, FileName(Len(tree)))
    /\ pc' = "walk"
    /\ UNCHANGED <<pipeline, mode, tree, pos, ctx, result, data, nodes, edges, graph,
                   procVars, outVars, walkVars>>

\* console.log(JSON.stringify(results)) and the host's json.loads.
JSEmit ==
    /\ pipeline = "js" /\ pc = "walk"
    /\ mode = "file" => Len(tree) = 1
    /\ data' = [nodes |-> results.nodes, edges |-> results.edges]
    /\ pc' = "stdout"
    /\ returncode' = 0 /\ stdout' = "json"
    /\ UNCHANGED <<pipeline, mode, tree, pos, ctx, result, results, nodes, edges, graph,
                   binary, started, outVars, walkVars>>

(***************************************************************************)
(* PHP script                                                              *)
(***************************************************************************)
\* analyzeFile($phpFile) starts: the file is tokenized.
PHPOpenFile ==
    /\ pipeline = "php" /\ pc = "walk" /\ MoreFiles
    /\ IF mode = "dir"
       THEN \E dirs \in Dirs :
               /\ ~PHPSkips(root, dirs)
               /\ item' = [n |-> item.n + 1, dirs |-> dirs, scanned |-> TRUE]
       ELSE item' = item
    /\ \E stmts \in SeqsUpTo(PHPStmts, MaxStmts - PHPStmtsRead) :
          tree' = Append(tree, PHPTokens(stmts))
    /\ pos' = 1
    /\ ctx' = PHPInitCtx
    /\ result' = InitResult
    /\ pc' = "scan"
    /\ UNCHANGED <<pipeline, mode, results, data, nodes, edges, graph,
                   procVars, outVars, root>>

\* The file collection leaves a file out of $phpFiles.
PHPSkipFile ==
    /\ pipeline = "php" /\ pc = "walk" /\ mode = "dir" /\ MoreFiles
    /\ \E dirs \in Dirs :
          /\ PHPSkips(root, dirs)
          /\ item' = [n |-> item.n + 1, dirs |-> dirs, scanned |-> FALSE]
    /\ UNCHANGED <<pipeline, mode, pc, tree, pos, ctx, result, results, data, nodes, edges,
                   graph, procVars, outVars, root>>

\* One iteration of the loop over the tokens.
PHPScanToken ==
    /\ pipeline = "php" /\ pc = "scan" /\ pos <= Len(Last(tree))
    /\ LET st == PHPToken([ctx |-> ctx, result |-> result], Last(tree), pos)
       IN  /\ ctx' = st.ctx
           /\ result' = st.result
    /\ pos' = pos + 1
    /\ UNCHANGED <<pipeline, mode, pc, tree, results, data, nodes, edges, graph,
                   procVars, outVars, walkVars>>

\* analyzeFile returns; in directory mode its result is added to $results.
PHPCloseFile ==
    /\ pipeline = "php" /\ pc = "scan" /\ pos > Len(Last(tree))
    /\ results' = IF mode = "dir" THEN PHPMerge(results, result, FileName(Len(tree)))
                  ELSE results
    /\ pc' = "walk"
    /\ UNCHANGED <<pipeline, mode, tree, pos, ctx, result, data, nodes, edges, graph,
                   procVars, outVars, walkVars>>

\* echo json_encode(...) and the host's json.loads: $results of a
\* directory, the bare $result of analyzeFile for a single file.
PHPEmit ==
    /\ pipeline = "php" /\ pc = "walk"
    /\ mode = "file" => Len(tree) = 1
    /\ data' = IF mode = "dir"
               THEN [nodes |-> results.nodes, edges |-> results.edges]
               ELSE result
    /\ pc' = "stdout"
    /\ returncode' = 0 /\ stdout' = "json"
    /\ UNCHANGED <<pipeline, mode, tree, pos, ctx, result, results, nodes, edges, graph,
                   binary, started, outVars, walkVars>>

(***************************************************************************)
(* Host                                                                    *)
(***************************************************************************)
\* __init__ finds no interpreter: main() reports the error and exits.
NotFound ==
    /\ pc = "main" /\ binary = Null
    /\ exit' = 1
    /\ pc' = "done"
    /\ UNCHANGED <<pipeline, mode, tree, pos, ctx, result, results, data, nodes, edges,
                   graph, procVars, written, walkVars>>

\* __init__ found the interpreter and analyze() runs the script on the path.
RunScript ==
    /\ pc = "main" /\ binary # Null
    /\ started' = TRUE
    /\ pc' = "walk"
    /\ UNCHANGED <<pipeline, mode, tree, pos, ctx, result, results, data, nodes, edges,
                   graph, binary, returncode, stdout, outVars, walkVars>>

\* The JavaScript script ends with status 1 and an empty standard output:
\* the path does not exist (process.exit(1)), or an exception is not
\* caught: readdirSync or statSync throws at some point of the walk of a
\* directory, or readFileSync throws on the single file.
JSScriptFails ==
    /\ pipeline = "js" /\ pc = "walk"
    /\ mode = "file" => tree = <<>>
    /\ returncode' = 1 /\ stdout' = "text"
    /\ pc' = "stdout"
    /\ UNCHANGED <<pipeline, mode, tree, pos, ctx, result, results, data, nodes, edges,
                   graph, binary, started, outVars, walkVars>>

\* The PHP script ends with status 255 on an exception that is not caught:
\* RecursiveDirectoryIterator throws while the files are collected, before
\* any file is analyzed.
PHPScriptFails ==
    /\ pipeline = "php" /\ pc = "walk" /\ mode = "dir" /\ tree = <<>>
    /\ returncode' = 255 /\ stdout' = "text"
    /\ pc' = "stdout"
    /\ UNCHANGED <<pipeline, mode, tree, pos, ctx, result, results, data, nodes, edges,
                   graph, binary, started, outVars, walkVars>>

\* The PHP script is given a single file it cannot read (the path may not
\* exist): analyzeFile returns null and json_encode prints `null`, with
\* status 0.
PHPEmitNull ==
    /\ pipeline = "php" /\ pc = "walk" /\ mode = "file" /\ tree = <<>>
    /\ returncode' = 0 /\ stdout' = "null"
    /\ pc' = "stdout"
    /\ UNCHANGED <<pipeline, mode, tree, pos, ctx, result, results, data, nodes, edges,
                   graph, binary, started, outVars, walkVars>>

\* The script ends with status 0 and a standard output json.loads rejects
\* (in PHP a warning printed before the document, or json_encode failing).
EmitInvalid ==
    /\ pc = "walk"
    /\ (mode = "file" /\ pipeline = "js") => Len(tree) = 1
    /\ returncode' = 0 /\ stdout' = "text"
    /\ pc' = "stdout"
    /\ UNCHANGED <<pipeline, mode, tree, pos, ctx, result, results, data, nodes, edges,
                   graph, binary, started, outVars, walkVars>>

\* analyze(): result.returncode != 0 raises; main() exits with status 1.
AnalysisFailed ==
    /\ pc = "stdout" /\ returncode # 0
    /\ exit' = 1
    /\ pc' = "done"
    /\ UNCHANGED <<pipeline, mode, tree, pos, ctx, result, results, data, nodes, edges,
                   graph, procVars, written, walkVars>>

\* analyze(): json.loads raises JSONDecodeError; main() exits with status 1.
ParseFailed ==
    /\ pc = "stdout" /\ returncode = 0 /\ stdout = "text"
    /\ exit' = 1
    /\ pc' = "done"
    /\ UNCHANGED <<pipeline, mode, tree, pos, ctx, result, results, data, nodes, edges,
                   graph, procVars, written, walkVars>>

\* analyze(): json.loads returns None for the document `null` and
\* data.get raises AttributeError; main() exits with status 1.
DocumentRejected ==
    /\ pc = "stdout" /\ returncode = 0 /\ stdout = "null"
    /\ exit' = 1
    /\ pc' = "done"
    /\ UNCHANGED <<pipeline, mode, tree, pos, ctx, result, results, data, nodes, edges,
                   graph, procVars, written, walkVars>>

\* analyze() from the parsed document to the returned graph, which main()
\* saves to the output file.
Analyze ==
    /\ pc = "stdout" /\ returncode = 0 /\ stdout = "json"
    /\ LET st == AnalyzeData(data)
       IN  /\ nodes' = st.nodes
           /\ edges' = st.edges
           /\ graph' = BuildGraph(st.nodes, st.edges)
    /\ written' = TRUE
    /\ exit' = 0
    /\ pc' = "done"
    /\ UNCHANGED <<pipeline, mode, tree, pos, ctx, result, results, data, procVars, walkVars>>

Next ==
    \/ NotFound
    \/ RunScript
    \/ JSScriptFails
    \/ PHPScriptFails
    \/ PHPEmitNull
    \/ EmitInvalid
    \/ AnalysisFailed
    \/ ParseFailed
    \/ DocumentRejected
    \/ JSOpenFile
    \/ JSSkipFile
    \/ JSScanLine
    \/ JSCloseFile
    \/ JSEmit
    \/ PHPOpenFile
    \/ PHPSkipFile
    \/ PHPScanToken
    \/ PHPCloseFile
    \/ PHPEmit
    \/ Analyze

Spec == Init /\ [][Next]_vars

(***************************************************************************)
(* Vocabulary of the properties                                            *)
(***************************************************************************)
DataNodes == Get(data, "nodes")
DataEdges == Get(data, "edges")

Indices(s) == 1..Len(s)

\* A step of the scan: one more line (JavaScript), one more token (PHP).
JSStep == pipeline = "js" /\ pc = "scan" /\ pc' = "scan"
          /\ Len(tree') = Len(tree) /\ Len(Last(tree')) = Len(Last(tree)) + 1
PHPStep == pipeline = "php" /\ pc = "scan" /\ pos' = pos + 1

\* The line a JavaScript step scans and its number.
ScannedLine == Last(Last(tree'))
ScannedLineNumber == Len(Last(tree'))

\* The edges a step of the scan adds to the file's result.
AddedEdges == SubSeq(result'.edges, Len(result.edges) + 1, Len(result'.edges))

\* Method, else function, else class: the source the recorder is to use.
Priority(c) ==
    IF c.currentMethod # Null THEN c.currentMethod
    ELSE IF c.currentFunction # Null THEN c.currentFunction
    ELSE c.currentClass

\* The block delimiters of a text, and its nesting depth.
Braces(lex) == SelectSeq(lex, LAMBDA t : t \in {"{", "}"})
Depth(lex) == Count(lex, "{") - Count(lex, "}")
\* No closing brace without an opening one before it.
WellNested(lex) == \A k \in Indices(lex) : Depth(SubSeq(lex, 1, k)) >= 0

\* The lexemes of the JavaScript file being scanned, and of the first n
\* tokens of the PHP file being scanned (an array token that is no brace
\* counts as a word).
JSText == Flatten(Last(tree))
PHPText(n) == [k \in 1..n |-> IF IsArray(Last(tree)[k]) THEN "w" ELSE Last(tree)[k].text]

\* The body of the declaration at lexeme p has been opened and closed: the
\* first opening brace after p has its matching closing brace.
BodyClosed(lex, p) ==
    \E o \in (p + 1)..Len(lex) :
        /\ lex[o] = "{"
        /\ \A k \in (p + 1)..(o - 1) : lex[k] # "{"
        /\ \E r \in (o + 1)..Len(lex) : Depth(SubSeq(lex, o, r)) = 0

\* Scan order of declarations: the file's place in the walk, then the line.
FileIndex(file) == CHOOSE n \in 1..Len(tree) : FileName(n) = file
NotBefore(d, e) ==
    \/ FileIndex(d.file) > FileIndex(e.file)
    \/ FileIndex(d.file) = FileIndex(e.file) /\ d.line >= e.line

(***************************************************************************)
(* C1: after analyze(), every node's in_degree is the number of edge       *)
(* records whose target is the node's id and its out_degree the number     *)
(* whose source is the node's id, duplicates and self-loops counted, ids   *)
(* declared more than once included.                                       *)
(***************************************************************************)
C1_DegreesCountEdgeRecords ==
    pc = "done" =>
        \A k \in Indices(graph.nodes) :
            /\ graph.nodes[k].in_degree =
                  Cardinality({e \in Indices(DataEdges) : DataEdges[e].target = graph.nodes[k].id})
            /\ graph.nodes[k].out_degree =
                  Cardinality({e \in Indices(DataEdges) : DataEdges[e].source = graph.nodes[k].id})

\* A node declared twice that two self-loops were counted for.
C1_Witness ==
    /\ pc = "done"
    /\ \E k \in Indices(graph.nodes) :
          /\ graph.nodes[k].in_degree >= 2
          /\ graph.nodes[k].out_degree >= 2
          /\ Cardinality({d \in Indices(DataNodes) : DataNodes[d].id = graph.nodes[k].id}) >= 2
          /\ \E e \in Indices(DataEdges) :
                DataEdges[e].source = graph.nodes[k].id /\ DataEdges[e].target = graph.nodes[k].id

(***************************************************************************)
(* C2: an edge with an endpoint that is no declared node stays in the      *)
(* final edge list as it is and fabricates no node: the node ids of the    *)
(* graph are exactly the ids of the node records, the edges of the graph   *)
(* are the edge records in order, and total_edges is their number.         *)
(***************************************************************************)
C2_UnknownEndpointsKept ==
    pc = "done" =>
        /\ {graph.nodes[k].id : k \in Indices(graph.nodes)}
              = {DataNodes[k].id : k \in Indices(DataNodes)}
        /\ graph.stats.total_edges = Len(DataEdges)
        /\ Len(graph.edges) = Len(DataEdges)
        /\ \A k \in Indices(graph.edges) :
              /\ graph.edges[k].source = DataEdges[k].source
              /\ graph.edges[k].target = DataEdges[k].target
              /\ graph.edges[k].type = DataEdges[k].type

\* A graph with a node and a wildcard method_call edge from it.
C2_Witness ==
    /\ pc = "done"
    /\ \E e \in Indices(graph.edges) :
          /\ graph.edges[e].type = "method_call"
          /\ \E k \in Indices(graph.nodes) : graph.nodes[k].id = graph.edges[e].source
          /\ \A k \in Indices(graph.nodes) : graph.nodes[k].id # graph.edges[e].target

(***************************************************************************)
(* C3: the final node list holds one node per declared id, and the node of *)
(* an id declared more than once carries the type, file and line of the    *)
(* declaration that is last in scan order, whatever the kinds.             *)
(***************************************************************************)
C3_LaterDeclarationWins ==
    pc = "done" =>
        /\ \A j, k \in Indices(graph.nodes) :
              graph.nodes[j].id = graph.nodes[k].id => j = k
        /\ \A d \in Indices(DataNodes) :
              \E k \in Indices(graph.nodes) :
                  /\ graph.nodes[k].id = DataNodes[d].id
                  /\ NotBefore(graph.nodes[k], DataNodes[d])

(***************************************************************************)
(* C4: every instantiates, static_call and method_call edge has as its     *)
(* source the enclosing method if set, else the enclosing function if set, *)
(* else the enclosing class, as they are when the construct is matched     *)
(* (after the declarations of the same line or token); with none of them   *)
(* set no such edge is emitted.                                            *)
(***************************************************************************)
ContextAtMatch ==
    IF pipeline = "js"
    THEN JSAfterDeclarations([ctx |-> ctx, result |-> result],
                             ScannedLine, ScannedLineNumber).ctx
    ELSE PHPAfterDeclarations([ctx |-> ctx, result |-> result], Last(tree), pos).ctx

C4_CallerPriority ==
    [][(JSStep \/ PHPStep) =>
          \A e \in Indices(AddedEdges) :
              AddedEdges[e].type \in {"instantiates", "static_call", "method_call"} =>
                  /\ Priority(ContextAtMatch) # Null
                  /\ AddedEdges[e].source = Priority(ContextAtMatch)]_vars

\* PHP: inside a method of a class, with a function declared before the
\* class, the three kinds of use have each added an edge from the method.
C4_Witness ==
    /\ pipeline = "php" /\ pc = "scan"
    /\ ctx.currentMethod # Null /\ ctx.currentFunction # Null /\ ctx.currentClass # Null
    /\ \A t \in {"instantiates", "static_call", "method_call"} :
          \E e \in Indices(result.edges) :
              /\ result.edges[e].type = t
              /\ result.edges[e].source = ctx.currentMethod

(***************************************************************************)
(* C5: a call or an instantiation at script top level, outside every body  *)
(* and with all earlier blocks closed, emits no edge, whatever was         *)
(* declared earlier in the file.                                           *)
(***************************************************************************)
\* A line that holds calls or instantiations and nothing else.
JSUseLine(line) ==
    /\ classRegex(line, 1) = <<>> /\ functionRegex(line, 1) = <<>>
    /\ callRegex(line, 1) # <<>>
    /\ Braces(line) = <<>>

C5_TopLevelEmitsNoEdge ==
    [][/\ (/\ JSStep
           /\ WellNested(JSText) /\ Depth(JSText) = 0
           /\ JSUseLine(ScannedLine)) => AddedEdges = <<>>
       /\ (/\ PHPStep
           /\ WellNested(PHPText(pos - 1)) /\ Depth(PHPText(pos - 1)) = 0
           /\ Last(tree)[pos].id \in {"T_NEW", "T_DOUBLE_COLON", "T_OBJECT_OPERATOR"})
             => AddedEdges = <<>>]_vars

(***************************************************************************)
(* C6: JavaScript, braces balanced: enclosing_class is set by a class      *)
(* declaration and stays set until the class body's closing brace; it is   *)
(* never cleared before the body has been opened and closed, wherever the  *)
(* opening brace is placed.                                                *)
(***************************************************************************)
\* Positions of the class declarations of a text, and the names declared.
ClassPositions(lex) ==
    {i \in Indices(lex) : lex[i] = "class" /\ i + 1 <= Len(lex) /\ IsWord(lex[i + 1])}
Max(S) == CHOOSE x \in S : \A y \in S : y <= x
Min(S) == CHOOSE x \in S : \A y \in S : x <= y

C6_ClassKeptUntilBodyClosed ==
    (/\ pipeline = "js" /\ pc = "scan"
     /\ WellNested(JSText)
     /\ ClassPositions(JSText) # {}
     /\ ~BodyClosed(JSText, Max(ClassPositions(JSText))))
        => ctx.currentClass = JSText[Max(ClassPositions(JSText)) + 1]

\* C6 as amended: after every line, enclosing_class is null when the
\* running depth of the file so far (opening minus closing braces) is zero
\* or less, the line of the declaration included; otherwise it is the last
\* class declared on the line, or what it was before the line.
C6_ClassClearedAtDepthZero ==
    [][JSStep =>
          ctx'.currentClass =
              IF Depth(Flatten(Last(tree'))) <= 0 THEN Null
              ELSE IF ClassPositions(ScannedLine) # {}
                   THEN ScannedLine[Max(ClassPositions(ScannedLine)) + 1]
                   ELSE ctx.currentClass]_vars

\* A class whose body opened on the declaration line, kept over a line and
\* cleared by the line of the closing brace.
C6_Witness ==
    /\ pipeline = "js" /\ pc = "scan"
    /\ Len(Last(tree)) = 3
    /\ ClassPositions(Last(tree)[1]) # {} /\ Depth(Last(tree)[1]) = 1
    /\ Braces(Last(tree)[2]) = <<>>
    /\ Last(tree)[3] = <<"}">>
    /\ ctx.currentClass = Null
    /\ result.edges # <<>>

(***************************************************************************)
(* C7: PHP: once the closing brace of a class body has been scanned,       *)
(* enclosing_class and enclosing_method are cleared, and a function        *)
(* declared afterwards at top level is recorded as a function, not as a    *)
(* method of the closed class.                                             *)
(***************************************************************************)
PHPClassTokens(n) == {i \in 1..n : IsTok(Last(tree)[i], "T_CLASS")}

C7_ClosedClassClearsContext ==
    (/\ pipeline = "php" /\ pc = "scan"
     /\ PHPClassTokens(pos - 1) # {}
     /\ WellNested(PHPText(pos - 1))
     /\ BodyClosed(PHPText(pos - 1), Max(PHPClassTokens(pos - 1))))
        => /\ ctx.currentClass = Null
           /\ ctx.currentMethod = Null
           /\ \A f \in 1..(pos - 1) :
                 (/\ IsTok(Last(tree)[f], "T_FUNCTION")
                  /\ Depth(PHPText(f - 1)) = 0
                  /\ PHPClassTokens(f - 1) # {}
                  /\ BodyClosed(PHPText(f - 1), Max(PHPClassTokens(f - 1))))
                    => /\ \E k \in Indices(result.functions) :
                             result.functions[k].line = Last(tree)[f].line
                       /\ \A k \in Indices(result.methods) :
                             result.methods[k].line # Last(tree)[f].line

(***************************************************************************)
(* C8: JavaScript: a file declaring `class Animal {}` and                  *)
(* `class Dog extends Animal { speak() {} }` yields the nodes Animal       *)
(* (class), Dog (class) and Dog::speak (method) and exactly one extends    *)
(* edge Dog -> Animal.                                                     *)
(***************************************************************************)
AnimalDogFile ==
    << <<"class", "Animal", "{", "}">>,
       <<"class", "Dog", "extends", "Animal", "{", "speak", "(", ")", "{", "}", "}">> >>

C8_AnimalDogScenario ==
    (pipeline = "js" /\ pc = "done" /\ tree = <<AnimalDogFile>>) =>
        /\ {<<graph.nodes[k].id, graph.nodes[k].type>> : k \in Indices(graph.nodes)}
              = {<<"Animal", "class">>, <<"Dog", "class">>, <<"Dog::speak", "method">>}
        /\ SelectSeq(graph.edges, LAMBDA e : e.type = "extends")
              = <<[source |-> "Dog", target |-> "Animal", type |-> "extends"]>>

(***************************************************************************)
(* C9: each `new X(...)` scanned while a current scope exists adds exactly *)
(* one instantiates edge from the current scope to X, and no node for X.   *)
(***************************************************************************)
\* The classes the `new` expressions of a line instantiate, in order.
NewTargets(line) ==
    LET at == SelectSeq([k \in Indices(line) |-> k],
                        LAMBDA i : /\ line[i] = "new" /\ i + 2 <= Len(line)
                                   /\ IsWord(line[i + 1]) /\ line[i + 2] = "(")
    IN  [k \in Indices(at) |-> line[at[k] + 1]]

\* A line whose only call-like constructs are `new` expressions.
JSNewLine(line) ==
    /\ JSUseLine(line)
    /\ NewTargets(line) # <<>>
    /\ Len(callRegex(line, 1)) = Len(NewTargets(line))

DeclarationsUnchanged ==
    /\ result'.classes = result.classes
    /\ result'.methods = result.methods
    /\ result'.functions = result.functions

C9_NewAddsOneEdge ==
    [][/\ (JSStep /\ JSNewLine(ScannedLine) /\ Priority(ctx) # Null) =>
            /\ AddedEdges = [k \in Indices(NewTargets(ScannedLine)) |->
                               [source |-> Priority(ctx),
                                target |-> NewTargets(ScannedLine)[k],
                                type |-> "instantiates", line |-> ScannedLineNumber]]
            /\ DeclarationsUnchanged
       /\ (/\ PHPStep /\ IsTok(Last(tree)[pos], "T_NEW") /\ Priority(ctx) # Null
           /\ pos + 2 <= Len(Last(tree)) /\ IsTok(Last(tree)[pos + 2], "T_STRING")) =>
            /\ AddedEdges = <<[source |-> Priority(ctx),
                               target |-> Last(tree)[pos + 2].text,
                               type |-> "instantiates", line |-> Last(tree)[pos].line]>>
            /\ DeclarationsUnchanged]_vars

(***************************************************************************)
(* C10: every class declaration that names a superclass yields exactly one *)
(* extends edge, from the class's qualified identifier (the id of the      *)
(* class node) to the superclass name, at the class's declaration line; a  *)
(* class declared without a superclass yields none.                        *)
(***************************************************************************)
AddedExtends == SelectSeq(AddedEdges, LAMBDA e : e.type = "extends")
AddedClasses == SubSeq(result'.classes, Len(result.classes) + 1, Len(result'.classes))

\* The name that starts at lexeme p: an identifier and the members
\* selected from it with '.'.
RECURSIVE DottedName(_, _)
DottedName(line, p) ==
    IF p + 2 <= Len(line) /\ line[p + 1] = "." /\ IsWord(line[p + 2])
    THEN line[p] \o "." \o DottedName(line, p + 2)
    ELSE line[p]

\* JavaScript: the extends edges the class declarations of a line call for.
JSExpectedExtends(line, lineNumber) ==
    LET at == SelectSeq([k \in Indices(line) |-> k],
                        LAMBDA i : /\ i \in ClassPositions(line) /\ i + 3 <= Len(line)
                                   /\ line[i + 2] = "extends" /\ IsWord(line[i + 3]))
    IN  [k \in Indices(at) |->
            [source |-> line[at[k] + 1], target |-> DottedName(line, at[k] + 3),
             type |-> "extends", line |-> lineNumber]]

\* PHP: the extends edge the class declaration at token i calls for: the
\* header runs up to the opening brace; its first name is the class, the
\* name after `extends` the superclass.
PHPExpectedExtends(tokens, i, namespace) ==
    LET open == Min({k \in (i + 1)..(Len(tokens) + 1) :
                        k = Len(tokens) + 1 \/ IsChr(tokens[k], "{")})
        names == {k \in (i + 1)..(open - 1) : IsTok(tokens[k], "T_STRING")}
        exts == {k \in (i + 1)..(open - 1) : IsTok(tokens[k], "T_EXTENDS")}
    IN  IF ~IsTok(tokens[i], "T_CLASS") \/ names = {} \/ exts = {} THEN <<>>
        ELSE <<[source |-> IF namespace = "" THEN tokens[Min(names)].text
                           ELSE namespace \o "\\" \o tokens[Min(names)].text,
                target |-> tokens[Min({k \in names : k > Min(exts)})].text,
                type |-> "extends", line |-> tokens[i].line]>>

C10_OneExtendsEdgePerSubclass ==
    [][/\ JSStep =>
            AddedExtends = JSExpectedExtends(ScannedLine, ScannedLineNumber)
       /\ PHPStep =>
            AddedExtends = PHPExpectedExtends(Last(tree), pos, ctx.namespace)
       /\ (JSStep \/ PHPStep) =>
            \A e \in Indices(AddedExtends) :
                \E c \in Indices(AddedClasses) :
                    /\ AddedClasses[c].name = AddedExtends[e].source
                    /\ AddedClasses[c].line = AddedExtends[e].line]_vars

(***************************************************************************)
(* C11: in the JavaScript pipeline a call to a non-user-code built-in (a   *)
(* call on the console object such as console.log(...), require(...) or    *)
(* import(...)) emits no edge, in any scope.                               *)
(***************************************************************************)
\* The call matched at lexeme p is a call to a built-in: require, import,
\* or a member of console.
JSBuiltinCall(line, p) ==
    \/ line[p] \in {"require", "import"} /\ (p = 1 \/ line[p - 1] # ".")
    \/ p > 2 /\ line[p - 1] = "." /\ line[p - 2] = "console"

\* A line whose only constructs are calls to built-ins.
JSBuiltinLine(line) ==
    /\ classRegex(line, 1) = <<>> /\ functionRegex(line, 1) = <<>>
    /\ newRegex(line, 1) = <<>>
    /\ callRegex(line, 1) # <<>>
    /\ \A k \in Indices(callRegex(line, 1)) :
          JSBuiltinCall(line, callRegex(line, 1)[k].index)

C11_BuiltinCallsEmitNoEdge ==
    [][JSStep /\ JSBuiltinLine(ScannedLine) => AddedEdges = <<>>]_vars

(***************************************************************************)
(* C12: for every run of either host, if the interpreter is not found, or  *)
(* the interpreter process exits non-zero, or its standard output is not   *)
(* valid JSON, or it is valid JSON without the top-level nodes/edges       *)
(* shape, then the scan is aborted: no output graph file is written and    *)
(* the host exits non-zero; when the interpreter is not found, no scan     *)
(* process is started at all.                                              *)
(***************************************************************************)
Aborted == ~written /\ exit # 0

\* The standard output is a JSON object with the top-level keys nodes and
\* edges.
HasShape == stdout = "json" /\ {"nodes", "edges"} \subseteq DOMAIN data

C12_AnomaliesAbortTheScan ==
    pc = "done" =>
        IF binary = Null THEN ~started /\ Aborted
        ELSE (returncode # 0 \/ stdout = "text" \/ ~HasShape) => Aborted

(***************************************************************************)
(* C13: when the path names a single file, the script of either pipeline   *)
(* writes a document with top-level nodes and edges, and the final graph   *)
(* is the one obtained when the file is the only eligible file of a        *)
(* scanned directory: its classes, methods and functions are nodes and its *)
(* edges count toward their degrees.                                       *)
(***************************************************************************)
\* The document of a directory whose only eligible file is the scanned one.
OnlyFileDocument ==
    IF pipeline = "js"
    THEN JSMerge([nodes |-> <<>>, edges |-> <<>>], result, FileName(1))
    ELSE PHPMerge([nodes |-> <<>>, edges |-> <<>>], result, FileName(1))

C13_SingleFileAsOnlyFile ==
    (pc = "done" /\ mode = "file" /\ written) =>
        /\ HasShape
        /\ LET st == AnalyzeData(OnlyFileDocument)
           IN  graph = BuildGraph(st.nodes, st.edges)

(***************************************************************************)
(* C14: in directory mode of both pipelines no node and no edge of the     *)
(* output originates from a file under a subdirectory of the scanned root  *)
(* named node_modules or vendor, at any depth, while every eligible file   *)
(* that is not under such a directory is scanned.                          *)
(***************************************************************************)
\* The file is under a directory named node_modules or vendor, below the
\* scanned root.
UnderExcluded(dirs) == \E k \in Indices(dirs) : dirs[k] \in {"node_modules", "vendor"}

\* The result of the file the walk is at adds nodes or edges to the output.
Contributes == mode = "dir" /\ results' # results

\* The walk passes over the next file without scanning it.
PassesOver == item'.n = item.n + 1 /\ ~item'.scanned

C14_ExcludedDirectoriesOnly ==
    [][/\ Contributes => ~UnderExcluded(item.dirs)
       /\ PassesOver => UnderExcluded(item'.dirs)]_vars

(***************************************************************************)
(* C15: in the JavaScript pipeline a call Name(...) matched while a scope  *)
(* is current, Name not being a suppressed built-in, emits a method_call   *)
(* edge to *.Name exactly when the callee is directly preceded by a        *)
(* member-access operator, an instantiates edge to Name exactly when it is *)
(* not so preceded and Name starts with an uppercase letter, and no edge   *)
(* in every other case.                                                    *)
(***************************************************************************)
UpperLetters ==
    {"A", "B", "C", "D", "E", "F", "G", "H", "I", "J", "K", "L", "M",
     "N", "O", "P", "Q", "R", "S", "T", "U", "V", "W", "X", "Y", "Z"}

\* The edges the statement gives the call matched at lexeme p.
CallEdgesAt(line, p, caller, lineNumber) ==
    IF line[p] \in {"console", "require", "import"} THEN <<>>
    ELSE IF p > 1 /\ line[p - 1] = "."
    THEN <<[source |-> caller, target |-> "*." \o line[p],
            type |-> "method_call", line |-> lineNumber]>>
    ELSE IF FirstChar(line[p]) \in UpperLetters
    THEN <<[source |-> caller, target |-> line[p],
            type |-> "instantiates", line |-> lineNumber]>>
    ELSE <<>>

\* The edges of the calls of a line, then those of its `new` expressions.
CallEdgesOf(line, caller, lineNumber) ==
    Flatten([k \in Indices(callRegex(line, 1)) |->
                CallEdgesAt(line, callRegex(line, 1)[k].index, caller, lineNumber)])
    \o [k \in Indices(NewTargets(line)) |->
            [source |-> caller, target |-> NewTargets(line)[k],
             type |-> "instantiates", line |-> lineNumber]]

C15_CallClassification ==
    [][(JSStep /\ Priority(ContextAtMatch) # Null) =>
          SelectSeq(AddedEdges, LAMBDA e : e.type # "extends")
            = CallEdgesOf(ScannedLine, Priority(ContextAtMatch), ScannedLineNumber)]_vars

(***************************************************************************)
(* C16: in the PHP pipeline an object-member access expr->member emits a   *)
(* wildcard method_call edge only when the member name is followed by a    *)
(* call (an opening parenthesis); a plain property access emits no edge.   *)
(***************************************************************************)
\* The first token from j on that is not whitespace (0 if there is none).
RECURSIVE NextCode(_, _)
NextCode(tokens, j) ==
    IF j > Len(tokens) THEN 0
    ELSE IF IsTok(tokens[j], "T_WHITESPACE") THEN NextCode(tokens, j + 1)
    ELSE j

\* The member named after the operator at token i is called.
MemberCalled(tokens, i) ==
    /\ i + 1 <= Len(tokens) /\ IsTok(tokens[i + 1], "T_STRING")
    /\ NextCode(tokens, i + 2) # 0
    /\ IsChr(tokens[NextCode(tokens, i + 2)], "(")

C16_PropertyAccessEmitsNoEdge ==
    [][(PHPStep /\ IsTok(Last(tree)[pos], "T_OBJECT_OPERATOR")) =>
          (AddedEdges # <<>> => MemberCalled(Last(tree), pos))]_vars

(***************************************************************************)
(* C17: in directory mode of both pipelines the source of every emitted    *)
(* edge is the id of a symbol declared in the same file, so it is the id   *)
(* of a node of the final graph; hence the out-degrees of the nodes sum to *)
(* total_edges and the in-degrees to at most total_edges.                  *)
(***************************************************************************)
\* The ids of the symbols a file result declares.
DeclaredIn(fileResult) ==
    {fileResult.classes[k].name : k \in Indices(fileResult.classes)}
    \cup {fileResult.methods[k].name : k \in Indices(fileResult.methods)}
    \cup {fileResult.functions[k].name : k \in Indices(fileResult.functions)}

RECURSIVE SumOut(_)
SumOut(nodesList) ==
    IF nodesList = <<>> THEN 0 ELSE Head(nodesList).out_degree + SumOut(Tail(nodesList))

RECURSIVE SumIn(_)
SumIn(nodesList) ==
    IF nodesList = <<>> THEN 0 ELSE Head(nodesList).in_degree + SumIn(Tail(nodesList))

C17_SourcesAreNodes ==
    mode = "dir" =>
        /\ \A e \in Indices(result.edges) : result.edges[e].source \in DeclaredIn(result)
        /\ \A e \in Indices(results.edges) :
              \E n \in Indices(results.nodes) :
                  /\ results.nodes[n].id = results.edges[e].source
                  /\ results.nodes[n].file = results.edges[e].file
        /\ (pc = "done" /\ written) =>
              /\ \A e \in Indices(graph.edges) :
                    \E n \in Indices(graph.nodes) : graph.nodes[n].id = graph.edges[e].source
              /\ SumOut(graph.nodes) = graph.stats.total_edges
              /\ SumIn(graph.nodes) <= graph.stats.total_edges

\* A graph of a directory with edges from two files, one of them to a
\* target that is no node.
C17_Witness ==
    /\ mode = "dir" /\ pc = "done" /\ written
    /\ \E d, e \in Indices(edges) : edges[d].file # edges[e].file
    /\ SumOut(graph.nodes) = Len(graph.edges)
    /\ SumIn(graph.nodes) < graph.stats.total_edges
    /\ SumIn(graph.nodes) > 0

(***************************************************************************)
(* C18: in the JavaScript pipeline a line that contains only a function or *)
(* method declaration (function name( with no call and no `new`) records   *)
(* the declaration and updates the enclosing function or method, and       *)
(* leaves the file's edge list unchanged, whatever the declared name is.   *)
(***************************************************************************)
\* A line whose only construct is one function declaration.
JSDeclarationLine(line) ==
    /\ Len(functionRegex(line, 1)) = 1
    /\ classRegex(line, 1) = <<>> /\ newRegex(line, 1) = <<>>
    /\ Len(callRegex(line, 1)) = 1
    /\ \A k \in Indices(line) : line[k] # "."

\* The name the line declares.
DeclaredName(line) == functionRegex(line, 1)[1].funcName

\* The declaration is recorded as a method of the current class, or as a
\* function, and becomes the enclosing method or function.
DeclarationRecorded ==
    IF ctx.inClass
    THEN /\ result'.methods =
              Append(result.methods,
                     [name |-> ctx.currentClass \o "::" \o DeclaredName(ScannedLine),
                      class |-> ctx.currentClass, type |-> "method",
                      line |-> ScannedLineNumber])
         /\ result'.functions = result.functions
         /\ ctx'.currentMethod = ctx.currentClass \o "::" \o DeclaredName(ScannedLine)
    ELSE /\ result'.functions =
              Append(result.functions,
                     [name |-> DeclaredName(ScannedLine), type |-> "function",
                      line |-> ScannedLineNumber])
         /\ result'.methods = result.methods
         /\ ctx'.currentFunction = DeclaredName(ScannedLine)

C18_DeclarationAddsNoEdge ==
    [][(JSStep /\ JSDeclarationLine(ScannedLine)) =>
          /\ DeclarationRecorded
          /\ result'.edges = result.edges]_vars

====
